---- MODULE Spec2Model ----
(***************************************************************************)
(* Model of the parameter-importance pipeline: the fANOVA evaluator        *)
(* (pimp/evaluator/fanova.py) and the Importance orchestrator              *)
(* (pimp/importance/importance.py).                                        *)
(*                                                                         *)
(* Conventions.  Python's None is the string "None".  Hyperparameters are  *)
(* numbered 1..nParams in configuration-space order (Python's idx + 1).    *)
(* An OrderedDict is a sequence of <<key, value>> pairs with distinct      *)
(* keys, in insertion order.  Importances are integers (tenths).           *)
(***************************************************************************)
EXTENDS Integers, Sequences, FiniteSets, TLC

VARIABLES
    nParams,        \* len(cs.get_hyperparameters())
    totalImp,       \* engine: quantify_importance([i])[(i,)]['total importance']
    pairsRev,       \* engine: the order in which it returns the pairs
    zeroDivAt,      \* engine: the query that raises ZeroDivisionError (0: none)
    evs,            \* the evaluator objects constructed so far
    last,           \* outcome of the last call, as its caller sees it
    dump,           \* content of fANOVA_crash_data.pkl (<<>>: no such file)
    trace,          \* what the last call did, in order: evaluators
                    \* constructed, engine queries, the crash dump, and how
                    \* each run() ended
    orch            \* the fields of the Importance object

vars == <<nParams, totalImp, pairsRev, zeroDivAt, evs, last, dump, trace, orch>>

----------------------------------------------------------------------------
(* Bounds *)
MaxParams == 3      \* hyperparameters in the configuration space
MaxRuns == 2        \* run() calls on one evaluator
MaxPairs == 2       \* explicit n_pairs arguments 0..MaxPairs
MaxTraj == 2        \* trajectory files colocated with the history
MaxRows == 3        \* rows of the prepared training data
MaxConfigs == 2     \* configurations in the run history

(* Program constants *)
DefaultNPairs == 5  \* fANOVA.__init__(..., n_pairs=5)

HP == <<"a", "b", "c", "d", "e", "f">>      \* param.name by index
ImpValues == {1, 3, 6}                      \* total importances, in tenths
Names == {HP[i] : i \in 1..nParams}

Min(a, b) == IF a <= b THEN a ELSE b

\* an entry of trace
Event(what, arg) == [what |-> what, arg |-> arg]

----------------------------------------------------------------------------
(* OrderedDict *)
Keys(od) == [i \in 1..Len(od) |-> od[i][1]]
KeySet(od) == {od[i][1] : i \in 1..Len(od)}

\* od[k] = v: an existing key keeps its position, a new key is appended
OD_Set(od, k, v) ==
    IF k \in KeySet(od)
    THEN [i \in 1..Len(od) |-> IF od[i][1] = k THEN <<k, v>> ELSE od[i]]
    ELSE Append(od, <<k, v>>)

\* str([a, b])
PairKey(a, b) == "['" \o a \o "', '" \o b \o "']"

\* lst[:n] for n >= 0
Take(s, n) == SubSeq(s, 1, Min(n, Len(s)))

Range(s) == {s[i] : i \in 1..Len(s)}
Reverse(s) == [i \in 1..Len(s) |-> s[Len(s) + 1 - i]]

----------------------------------------------------------------------------
(* The decomposition engine (fanova.fanova.fANOVA), a black box.  Its      *)
(* answers are a function of the data it was built on: totalImp, pairsRev  *)
(* and zeroDivAt are fixed when the data is.                                *)

\* all pairs of the given names, first member before second
RECURSIVE Combos(_)
Combos(s) ==
    IF Len(s) < 2 THEN <<>>
    ELSE [k \in 1..(Len(s) - 1) |-> <<s[1], s[k + 1]>>] \o Combos(Tail(s))

IdxOf(name) == CHOOSE i \in 1..nParams : HP[i] = name

\* the value the engine gives a pair (a stand-in: the engine computes it)
PairValue(pair) == Min(totalImp[IdxOf(pair[1])], totalImp[IdxOf(pair[2])])

\* get_most_important_pairwise_marginals(params): an ordered mapping
\* (name_a, name_b) -> value over the pairs of params, in the engine's order
get_most_important_pairwise_marginals(params) ==
    LET known == SelectSeq(params, LAMBDA x : x \in Names)
        combos == Combos(known)
        ordered == IF pairsRev THEN Reverse(combos) ELSE combos
    IN  [i \in 1..Len(ordered) |-> <<ordered[i], PairValue(ordered[i])>>]

\* quantify_importance([idx])[(idx,)]['total importance']
quantify_importance(idx) == totalImp[idx]

----------------------------------------------------------------------------
(* fANOVA evaluator *)

\* AbstractEvaluator.__init__ (pimp/evaluator/base_evaluator.py): the fields
\* every evaluator starts with.  A negative to_evaluate means "all".
\* model: the surrogate handed over, [id, trains, instance_features, X, y].
AbstractEvaluator_init(name, to_evaluate, incumbent, model) ==
    [ name |-> name,
      to_evaluate |-> IF to_evaluate < 0 THEN nParams ELSE to_evaluate,
      incumbent |-> incumbent,
      model |-> model,
      X |-> model.X, y |-> model.y, cs |-> "cs",
      kinds |-> <<>>,           \* the kinds of cs.get_hyperparameters(), and
      nConfigs |-> 0,           \* the size of runhist (bookkeeping, fANOVA)
      init_trace |-> <<>>,      \* what the constructor did (bookkeeping)
      evaluated_parameter_importance |-> <<>>,
      n_most_imp_pairs |-> 0,
      num_single |-> -1,        \* -1: not set
      arg_to_evaluate |-> to_evaluate,  \* the argument as passed (bookkeeping)
      runs |-> 0 ]              \* run() calls so far (bookkeeping)

Kinds == {"categorical", "float"}
DefaultKinds == [i \in 1..nParams |-> IF i % 2 = 1 THEN "float" ELSE "categorical"]

\* impute_inactive_values(config).get_array()[idx] for the c-th
\* configuration of the history: a value that stands for the encoded one
Raw(c, idx) == 10 * c + idx

\* param._transform(v) (a stand-in: the result is not the value encoded)
Transform(v) == v + 100

\* model.predict_marginalized_over_instances(X)[0]: one mean per row, fixed
\* by the row
PredictedMeans(X) == [c \in 1..Len(X) |-> <<"mean", X[c]>>]

\* fANOVA._preprocess.  arrays: the array objects get_array() returned, by
\* configuration; X_prime and X_non_hyper hold references to them (both
\* append(config) calls append the one object), and the assignment
\* X_non_hyper[-1][idx] = ... writes to the object referred to.
preprocess(model, nConfigs, kinds) ==
    LET arrays0 == [c \in 1..nConfigs |-> [idx \in 1..nParams |-> Raw(c, idx)]]
        X_prime_refs == [c \in 1..nConfigs |-> c]
        X_non_hyper_refs == [c \in 1..nConfigs |-> c]
        arrays == [a \in 1..nConfigs |->
                     IF \E c \in 1..nConfigs : X_non_hyper_refs[c] = a
                     THEN [idx \in 1..nParams |->
                             IF kinds[idx] # "categorical"
                             THEN Transform(arrays0[a][idx])
                             ELSE arrays0[a][idx]]
                     ELSE arrays0[a]]
        X_non_hyper == [c \in 1..nConfigs |-> arrays[X_non_hyper_refs[c]]]
        X_prime == [c \in 1..nConfigs |-> arrays[X_prime_refs[c]]]
        y_prime == PredictedMeans(X_prime)
    IN  [ X |-> X_non_hyper, y |-> y_prime,
          trace |-> <<Event("predict_marginalized_over_instances",
                            <<model.id, X_prime>>)>> ]

\* fANOVA.__init__.  nConfigs: the configurations of runhist; kinds: the
\* kinds of the hyperparameters of cs.
fANOVA_init(to_evaluate, n_pairs, model, nConfigs, kinds) ==
    LET base == [ AbstractEvaluator_init("fANOVA", to_evaluate, "None", model)
                    EXCEPT !.n_most_imp_pairs = n_pairs,
                           !.num_single = -1,
                           !.kinds = kinds,
                           !.nConfigs = nConfigs ]
    IN  IF ~model.instance_features THEN base
        ELSE LET pre == preprocess(model, nConfigs, kinds)
             IN  [base EXCEPT !.X = pre.X, !.y = pre.y, !.init_trace = pre.trace]

\* sorted(enumerate(tmp_res), key=lambda x: x[1], reverse=True): the indices
\* 1..m by descending value; equal values keep their index order.
\* (variant: equal values end up in reverse index order)
RECURSIVE InsertDesc_Unstable(_, _, _)
InsertDesc_Unstable(s, i, v) ==
    IF s = <<>> THEN <<i>>
    ELSE IF v[Head(s)] > v[i]
         THEN <<Head(s)>> \o InsertDesc_Unstable(Tail(s), i, v)
    ELSE <<i>> \o s

RECURSIVE InsertDesc(_, _, _)
InsertDesc(s, i, v) ==
    IF s = <<>> THEN <<i>>
    ELSE IF v[Head(s)] >= v[i] THEN <<Head(s)>> \o InsertDesc(Tail(s), i, v)
    ELSE <<i>> \o s

RECURSIVE SortKeys(_, _)
SortKeys(v, m) ==
    IF m = 0 THEN <<>> ELSE InsertDesc(SortKeys(v, m - 1), m, v)

\* the reporting loop of run(): one entry per ranked index until count
\* reaches to_evaluate
\* (variant: the loop breaks one entry late)
RECURSIVE ReportLoop_Late(_, _, _, _, _)
ReportLoop_Late(epi, keys, count, to_evaluate, tmp_res) ==
    IF keys = <<>> \/ count > to_evaluate THEN epi
    ELSE ReportLoop_Late(OD_Set(epi, HP[Head(keys)], tmp_res[Head(keys)]),
                         Tail(keys), count + 1, to_evaluate, tmp_res)

\* (variant: the loop breaks one entry early)
RECURSIVE ReportLoop_Early(_, _, _, _, _)
ReportLoop_Early(epi, keys, count, to_evaluate, tmp_res) ==
    IF keys = <<>> \/ count + 1 >= to_evaluate THEN epi
    ELSE ReportLoop_Early(OD_Set(epi, HP[Head(keys)], tmp_res[Head(keys)]),
                          Tail(keys), count + 1, to_evaluate, tmp_res)

RECURSIVE ReportLoop(_, _, _, _, _)
ReportLoop(epi, keys, count, to_evaluate, tmp_res) ==
    IF keys = <<>> \/ count >= to_evaluate THEN epi
    ELSE ReportLoop(OD_Set(epi, HP[Head(keys)], tmp_res[Head(keys)]),
                    Tail(keys), count + 1, to_evaluate, tmp_res)

\* (variant: a new pair key goes in front of the keys there are)
RECURSIVE PairLoop_Front(_, _)
PairLoop_Front(epi, pairs) ==
    IF pairs = <<>> THEN epi
    ELSE LET k == PairKey(Head(pairs)[1][1], Head(pairs)[1][2])
         IN  PairLoop_Front(IF k \in KeySet(epi) THEN OD_Set(epi, k, Head(pairs)[2])
                            ELSE <<<<k, Head(pairs)[2]>>>> \o epi,
                            Tail(pairs))

\* the loop over the engine's pairs: epi[str([a, b])] = pairs[pair]
RECURSIVE PairLoop(_, _)
PairLoop(epi, pairs) ==
    IF pairs = <<>> THEN epi
    ELSE PairLoop(OD_Set(epi, PairKey(Head(pairs)[1][1], Head(pairs)[1][2]),
                         Head(pairs)[2]),
                  Tail(pairs))

\* the queries of the first loop up to the m-th: each index is asked twice
\* (once for the debug line, once for tmp_res)
SingleQueries(m) ==
    [p \in 1..m |-> Event("quantify_importance", <<(p + 1) \div 2>>)]

NoReturn == [kind |-> "none", results |-> <<>>, evaluators |-> <<>>]

(* The errors of the design, as the code raises them *)
NoError == "None"
DegenerateVarianceError ==
    "Exception: fANOVA crashed with a float division by zero error"
EngineError == "KeyError"       \* raised by the engine, not caught by run()

\* (variant: the handler raises without writing the dump)
CrashHandler_NoDump(ev, tr) ==
    [ ev |-> ev,
      err |-> DegenerateVarianceError,
      dump |-> <<>>,
      dumped |-> FALSE,
      res |-> [imp |-> <<>>, order |-> <<>>],
      trace |-> tr \o <<Event("ZeroDivisionError", <<>>),
                        Event("raise", <<DegenerateVarianceError>>)>> ]

\* except ZeroDivisionError: dump [X, y, cs], then raise
CrashHandler(ev, tr) ==
    [ ev |-> ev,
      err |-> DegenerateVarianceError,
      dump |-> <<ev.X, ev.y, ev.cs>>,
      dumped |-> TRUE,
      res |-> [imp |-> <<>>, order |-> <<>>],
      trace |-> tr \o <<Event("ZeroDivisionError", <<>>),
                        Event("dump", <<ev.X, ev.y, ev.cs>>),
                        Event("raise", <<DegenerateVarianceError>>)>> ]

\* run() from the pairwise query on: epi1 is the mapping after the
\* reporting loop
fANOVA_run_pairs(ev, epi1, unknownRaises) ==
    LET ev1 == [ev EXCEPT !.evaluated_parameter_importance = epi1,
                          !.num_single = Len(epi1)]
        params == Take(Keys(epi1), ev.n_most_imp_pairs)
        tr1 == Append(SingleQueries(2 * nParams),
                      Event("get_most_important_pairwise_marginals", params))
    IN  IF zeroDivAt = nParams + 1 THEN CrashHandler(ev1, tr1)
        ELSE IF unknownRaises /\ ~(Range(params) \subseteq Names)
        THEN [ ev |-> ev1, err |-> EngineError, dump |-> <<>>,
               dumped |-> FALSE,
               res |-> [imp |-> <<>>, order |-> <<>>],
               trace |-> Append(tr1, Event("raise", <<EngineError>>)) ]
        ELSE
        LET pairs == get_most_important_pairwise_marginals(params)
        IN  CHOOSE out \in
              {[ ev |-> [ev1 EXCEPT !.evaluated_parameter_importance = epi2],
                 err |-> NoError, dump |-> <<>>, dumped |-> FALSE,
                 res |-> [imp |-> epi2, order |-> Keys(epi2)],
                 trace |-> Append(tr1, Event("return", <<>>)) ] :
                  epi2 \in {PairLoop(epi1, pairs)}} : TRUE

\* fANOVA.run.  unknownRaises: whether the engine raises on a name that is
\* no hyperparameter (else it skips it).
fANOVA_run(ev, unknownRaises) ==
    IF zeroDivAt \in 1..nParams
    THEN CrashHandler(ev, SingleQueries(2 * (zeroDivAt - 1) + 1))
    ELSE
    LET tmp_res == [i \in 1..nParams |-> quantify_importance(i)]
    IN  CHOOSE out \in
            {fANOVA_run_pairs(ev, epi1, unknownRaises) :
                epi1 \in {ReportLoop(ev.evaluated_parameter_importance,
                                     tmp_res_sort_keys, 0, ev.to_evaluate,
                                     tmp_res) :
                             tmp_res_sort_keys \in {SortKeys(tmp_res, nParams)}}} : TRUE

----------------------------------------------------------------------------
(* State *)

\* the arguments of Importance(...) about the data and the randomness:
\* the scenario's run_obj, seed, the rows of the prepared data,
\* max_sample_size, and whether the scenario has instance features and how
\* many configurations the history holds
DefaultData ==
    [ run_obj |-> "quality", seed |-> 12345, nRows |-> 2, max_sample_size |-> -1,
      features |-> FALSE,       \* scenario.feature_array is not None
      nConfigs |-> 1 ]          \* len(runhistory.get_all_configs())

\* the Importance object before __init__ has run
OrchNew ==
    [ phase |-> "new",
      incumbent |-> "unset",
      model |-> "None",         \* short name of self._model
      model_id |-> 0,           \* which model object self._model is (0: none)
      seeds |-> <<>>,           \* the seeds of the models built, in call order
      X |-> <<>>, y |-> <<>>,   \* self.X, self.y: rows of the prepared data
      trained_X |-> <<>>,       \* the data of self._model's last train()
      trained_y |-> <<>>,
      trains |-> 0,             \* completed train() calls on self._model
      parameters_to_evaluate |-> -1,
      data |-> DefaultData,     \* the data arguments as passed (bookkeeping)
      evaluator |-> 0 ]         \* index into evs; 0: self._evaluator is None

NoCall == [op |-> "none", arg |-> <<>>, ev |-> 0, err |-> NoError, ret |-> NoReturn]

InitEngine ==
    /\ nParams \in 1..MaxParams
    /\ totalImp \in [1..nParams -> ImpValues]
    /\ pairsRev \in BOOLEAN
    /\ zeroDivAt \in 0..(nParams + 1)

InitRest ==
    /\ evs = <<>>
    /\ last = NoCall
    /\ dump = <<>>
    /\ trace = <<>>
    /\ orch = OrchNew

Init == InitEngine /\ InitRest

engineVars == <<nParams, totalImp, pairsRev, zeroDivAt>>

----------------------------------------------------------------------------
(* The evaluator used on its own *)

\* a trained surrogate, with or without instance features
TrainedModel(features) ==
    [ id |-> 1, trains |-> 1, instance_features |-> features,
      X |-> <<1, 2>>, y |-> <<1, 2>> ]

\* fANOVA(scenario, cs, model, to_evaluate, runhist, rng, n_pairs)
NewFanova(to_evaluate, n_pairs, features, nConfigs, kinds) ==
    /\ orch.phase = "new"
    /\ \E ev \in {fANOVA_init(to_evaluate, n_pairs, TrainedModel(features),
                               nConfigs, kinds)} :
           /\ evs' = <<ev>>
           /\ trace' = ev.init_trace
    /\ last' = [NoCall EXCEPT !.op = "fANOVA", !.arg = <<to_evaluate, n_pairs>>,
                              !.ev = 1]
    /\ UNCHANGED <<engineVars, dump, orch>>

\* evaluator.run() on evaluator e
Run(e, unknownRaises) ==
    /\ evs[e].name = "fANOVA"
    /\ evs[e].runs < MaxRuns
    /\ \E out \in {fANOVA_run(evs[e], unknownRaises)} :
           /\ evs' = [evs EXCEPT ![e] = [out.ev EXCEPT !.runs = @ + 1]]
           /\ last' = [ op |-> "run", arg |-> <<>>, ev |-> e, err |-> out.err,
                        ret |-> IF out.err = NoError
                                THEN [ kind |-> "run",
                                       results |-> <<[method |-> "fanova", ev |-> e,
                                                      imp |-> out.res.imp,
                                                      order |-> out.res.order]>>,
                                       evaluators |-> <<>> ]
                                ELSE NoReturn ]
           /\ dump' = IF out.dumped THEN out.dump ELSE dump
           /\ trace' = out.trace
    /\ UNCHANGED <<engineVars, orch>>

\* on a surrogate without instance features
NewFanovaStep ==
    \E k \in -2..(MaxParams + 1), np \in (0..MaxPairs) \cup {DefaultNPairs} :
        NewFanova(k, np, FALSE, 1, DefaultKinds)

RunStep == \E e \in 1..Len(evs), u \in BOOLEAN : Run(e, u)

Next == NewFanovaStep \/ RunStep

Spec == Init /\ [][Next]_vars

----------------------------------------------------------------------------
(* Importance orchestrator *)

InvalidMethodError == "ValueError: Specified evaluation method does not exist!"
MissingIncumbentError == "ValueError: Incumbent is None!"
NoIncumbentSourceError == "Exception: No method specified to load an incumbent"
NoRunhistoryError == "Exception: Either a runhistory or files to load them from"
FileNotFoundError == "FileNotFoundError"
IndexError == "IndexError: list index out of range"
SiblingRunError == "Exception raised by the evaluator's run()"

ValidMethods ==
    {"ablation", "fanova", "forward-selection", "influence-model", "incneighbor"}
OtherMethods == {"all", "random-search"}

Placeholder == "(None, None)"           \* self.incumbent = (None, None)
TrajCfg == "cfg(traj_file)"             \* what _read_traj_file(traj_file) parses
ColocCfg == <<"cfg(traj 1)", "cfg(traj 2)", "cfg(traj 3)", "cfg(traj 4)">>
DirectCfg == "cfg(incumbent)"           \* the incumbent argument
TrajFiles == {"None", "traj.json", "missing.json"}      \* traj_file arguments

\* sorted(incumbents, key=lambda x: x[sort_idx]): ascending, stable.
\* An entry is <<configuration, predicted mean>>.
RECURSIVE InsertAsc(_, _)
InsertAsc(s, x) ==
    IF s = <<>> THEN <<x>>
    ELSE IF Head(s)[2] <= x[2] THEN <<Head(s)>> \o InsertAsc(Tail(s), x)
    ELSE <<x>> \o s

RECURSIVE SortAsc(_)
SortAsc(s) ==
    IF s = <<>> THEN <<>>
    ELSE InsertAsc(SortAsc(SubSeq(s, 1, Len(s) - 1)), s[Len(s)])

\* Importance._load_incumbent.  preds: the surrogate's marginal prediction
\* for the incumbent of each trajectory file found beside the history file.
\* model_id: the model object self._model refers to.
load_incumbent(traj_file, runhistory_file, incumbent, preds, model_id) ==
    IF traj_file # "None"
    THEN IF traj_file = "traj.json"
         THEN [incumbent |-> TrajCfg, err |-> NoError, trace |-> <<>>]
         ELSE [incumbent |-> Placeholder, err |-> FileNotFoundError, trace |-> <<>>]
    ELSE IF runhistory_file # "None"
    THEN LET incumbents ==
                 SortAsc([i \in 1..Len(preds) |-> <<ColocCfg[i], preds[i]>>])
             tr == [i \in 1..Len(preds) |->
                       Event("predict_marginalized_over_instances",
                             <<model_id, ColocCfg[i]>>)]
         IN  IF incumbents = <<>>
             THEN [incumbent |-> Placeholder, err |-> IndexError, trace |-> tr]
             ELSE [incumbent |-> incumbents[1][1], err |-> NoError, trace |-> tr]
    ELSE IF incumbent # "None"
    THEN [incumbent |-> incumbent, err |-> NoError, trace |-> <<>>]
    ELSE [incumbent |-> Placeholder, err |-> NoIncumbentSourceError, trace |-> <<>>]

\* the permutations of 1..n: what shuffle(list(range(n))) can leave
Perms(n) == {p \in [1..n -> 1..n] : \A i, j \in 1..n : i # j => p[i] # p[j]}

\* self.rng.randint(99999): the i-th draw of RandomState(seed), a value
\* fixed by seed and i
RngRandint(seed, i) == <<"RandomState", seed, "draw", i>>

\* A[idx]: the rows of A at the positions idx
Rows(A, idx) == [i \in 1..Len(idx) |-> A[idx[i]]]

\* (variant: the model is built and left untrained)
setup_model_Untrained(o, run_obj, seed, nRows) ==
    LET id == o.model_id + 1
        n0 == Len(o.seeds)
        draws == IF run_obj = "runtime" THEN 2 ELSE 1
        seeds == [i \in 1..draws |-> RngRandint(seed, n0 + i)]
        X == [i \in 1..nRows |-> i]
        Y == [i \in 1..nRows |-> i]
    IN  [ orch |-> [o EXCEPT !.model = IF run_obj = "runtime" THEN "urfi"
                                       ELSE "rfi",
                             !.model_id = id,
                             !.seeds = @ \o seeds,
                             !.X = X, !.y = Y],
          trace |-> [i \in 1..draws |-> Event("self.rng.randint", <<n0 + i>>)] ]

\* _setup_model: _convert_data with the model setter.  The prepared data
\* has nRows rows; row i of X belongs to row i of y.
setup_model(o, run_obj, seed, nRows) ==
    LET id == o.model_id + 1
        n0 == Len(o.seeds)
        draws == IF run_obj = "runtime" THEN 2 ELSE 1
        seeds == [i \in 1..draws |-> RngRandint(seed, n0 + i)]
        X == [i \in 1..nRows |-> i]
        Y == [i \in 1..nRows |-> i]
    IN  [ orch |-> [o EXCEPT !.model = IF run_obj = "runtime" THEN "urfi"
                                       ELSE "rfi",
                             !.model_id = id,
                             !.seeds = @ \o seeds,
                             !.X = X, !.y = Y,
                             !.trained_X = X, !.trained_y = Y,
                             !.trains = 1],
          trace |-> [i \in 1..draws |-> Event("self.rng.randint", <<n0 + i>>)]
                    \o <<Event("train", <<id, X, Y>>)>> ]

\* (variant: y is left as prepared)
Downsample_XOnly(o, max_sample_size, perm) ==
    IF 0 < max_sample_size /\ max_sample_size < Len(o.X)
    THEN LET idx == Take(perm, max_sample_size)
             X == Rows(o.X, idx)
         IN  [ orch |-> [o EXCEPT !.X = X,
                                  !.trained_X = X, !.trained_y = o.y,
                                  !.trains = @ + 1],
               trace |-> <<Event("np.random.shuffle", <<>>),
                           Event("train", <<o.model_id, X, o.y>>)>> ]
    ELSE [orch |-> o, trace |-> <<>>]

\* the downsampling of __init__.  perm: the order np.random.shuffle leaves
\* list(range(len(self.X))) in.
Downsample(o, max_sample_size, perm) ==
    IF 0 < max_sample_size /\ max_sample_size < Len(o.X)
    THEN LET idx == Take(perm, max_sample_size)
             X == Rows(o.X, idx)
             Y == Rows(o.y, idx)
         IN  [ orch |-> [o EXCEPT !.X = X, !.y = Y,
                                  !.trained_X = X, !.trained_y = Y,
                                  !.trains = @ + 1],
               trace |-> <<Event("np.random.shuffle", <<>>),
                           Event("train", <<o.model_id, X, Y>>)>> ]
    ELSE [orch |-> o, trace |-> <<>>]

\* Importance.__init__: _load_runhist, _setup_model, _load_incumbent and the
\* downsampling.  d: the arguments about the data (see DefaultData); perm:
\* what the shuffle does.
Importance_init(runhistory, runhistory_file, traj_file, incumbent, preds, k, d, perm) ==
    LET o0 == [OrchNew EXCEPT !.parameters_to_evaluate = k, !.data = d]
    IN  IF runhistory = "None" /\ runhistory_file = "None"
        THEN [ orch |-> [o0 EXCEPT !.phase = "failed"],
               err |-> NoRunhistoryError, trace |-> <<>> ]
        ELSE
        LET sm == setup_model(o0, d.run_obj, d.seed, d.nRows)
            li == load_incumbent(traj_file, runhistory_file, incumbent, preds,
                                 sm.orch.model_id)
            o2 == [sm.orch EXCEPT !.incumbent = li.incumbent]
            ds == Downsample(o2, d.max_sample_size, perm)
        IN  IF li.err # NoError
            THEN [ orch |-> [o2 EXCEPT !.phase = "no incumbent"],
                   err |-> li.err, trace |-> sm.trace \o li.trace ]
            ELSE [ orch |-> [ds.orch EXCEPT !.phase = "ready"],
                   err |-> NoError,
                   trace |-> sm.trace \o li.trace \o ds.trace ]

\* the constructors of the other evaluators (interface only)
Sibling_init(name, to_evaluate, incumbent, model) ==
    AbstractEvaluator_init(name, to_evaluate, incumbent, model)

\* self._model as the evaluators get it
ModelOf(o) ==
    [ id |-> o.model_id, trains |-> o.trains,
      instance_features |-> o.data.features,
      X |-> o.trained_X, y |-> o.trained_y ]

\* the head of the evaluator setter:
\*     if self._model is None: self._setup_model()
ensure_model(o) ==
    IF o.model = "None"
    THEN setup_model(o, o.data.run_obj, o.data.seed, o.data.nRows)
    ELSE [orch |-> o, trace |-> <<>>]

\* (variant: the method name is not validated)
evaluator_setter_Unchecked(o, method) ==
    LET k == o.parameters_to_evaluate
    IN  IF method = "ablation"
        THEN [err |-> NoError, made |-> <<Sibling_init("Ablation", k, o.incumbent, ModelOf(o))>>]
        ELSE IF method = "influence-model"
        THEN [err |-> NoError, made |-> <<Sibling_init("InfluenceModel", k, "None", ModelOf(o))>>]
        ELSE IF method = "fanova"
        THEN [err |-> NoError, made |-> <<fANOVA_init(k, DefaultNPairs, ModelOf(o), o.data.nConfigs,
                                            DefaultKinds)>>]
        ELSE IF method = "incneighbor"
        THEN [err |-> NoError, made |-> <<Sibling_init("IncNeighbor", k, o.incumbent, ModelOf(o))>>]
        ELSE [err |-> NoError, made |-> <<Sibling_init("ForwardSelector", k, "None", ModelOf(o))>>]

\* the evaluator property setter after its head: the evaluator it
\* constructs, or the error
evaluator_setter(o, method) ==
    LET k == o.parameters_to_evaluate
    IN  IF method \notin {"ablation", "fanova", "forward-selection",
                          "influence-model", "incneighbor"}
        THEN [err |-> InvalidMethodError, made |-> <<>>]
        ELSE IF method = "ablation"
        THEN IF o.incumbent = "None"
             THEN [err |-> MissingIncumbentError, made |-> <<>>]
             ELSE [err |-> NoError,
                   made |-> <<Sibling_init("Ablation", k, o.incumbent, ModelOf(o))>>]
        ELSE IF method = "influence-model"
        THEN [err |-> NoError, made |-> <<Sibling_init("InfluenceModel", k, "None", ModelOf(o))>>]
        ELSE IF method = "fanova"
        THEN [err |-> NoError, made |-> <<fANOVA_init(k, DefaultNPairs, ModelOf(o), o.data.nConfigs,
                                            DefaultKinds)>>]
        ELSE IF method = "incneighbor"
        THEN IF o.incumbent = "None"
             THEN [err |-> MissingIncumbentError, made |-> <<>>]
             ELSE [err |-> NoError,
                   made |-> <<Sibling_init("IncNeighbor", k, o.incumbent, ModelOf(o))>>]
        ELSE [err |-> NoError, made |-> <<Sibling_init("ForwardSelector", k, "None", ModelOf(o))>>]

\* run() of the other evaluators (interface only): a mapping over the first
\* to_evaluate hyperparameters, or an error
Sibling_run(ev, fails) ==
    IF fails
    THEN [ ev |-> ev, err |-> SiblingRunError, dump |-> <<>>, dumped |-> FALSE,
           res |-> [imp |-> <<>>, order |-> <<>>],
           trace |-> <<Event("raise", <<SiblingRunError>>)>> ]
    ELSE LET epi == [i \in 1..Min(ev.to_evaluate, nParams) |-> <<HP[i], 0>>]
         IN  [ ev |-> [ev EXCEPT !.evaluated_parameter_importance = epi],
               err |-> NoError, dump |-> <<>>, dumped |-> FALSE,
               res |-> [imp |-> epi, order |-> Keys(epi)],
               trace |-> <<Event("return", <<>>)>> ]

evaluator_run(ev, fails) ==
    LET out == IF ev.name = "fANOVA" THEN fANOVA_run(ev, TRUE)
               ELSE Sibling_run(ev, fails)
    IN  [out EXCEPT !.ev.runs = @ + 1]

\* (variant: sort_by = 5 selects the order of sort_by = 4)
MethodOrder_Merged(sort_by) ==
    IF sort_by = 1 THEN <<"ablation", "forward-selection", "fanova", "incneighbor">>
    ELSE IF sort_by = 2 THEN <<"fanova", "forward-selection", "ablation", "incneighbor">>
    ELSE IF sort_by = 3 THEN <<"fanova", "ablation", "forward-selection", "incneighbor">>
    ELSE IF sort_by \in {4, 5}
    THEN <<"forward-selection", "ablation", "fanova", "incneighbor">>
    ELSE <<"ablation", "fanova", "forward-selection", "incneighbor">>

\* the orders of evaluate_scenario
MethodOrder(sort_by) ==
    IF sort_by = 1 THEN <<"ablation", "forward-selection", "fanova", "incneighbor">>
    ELSE IF sort_by = 2 THEN <<"fanova", "forward-selection", "ablation", "incneighbor">>
    ELSE IF sort_by = 3 THEN <<"fanova", "ablation", "forward-selection", "incneighbor">>
    ELSE IF sort_by = 4 THEN <<"forward-selection", "ablation", "fanova", "incneighbor">>
    ELSE IF sort_by = 5 THEN <<"forward-selection", "fanova", "ablation", "incneighbor">>
    ELSE <<"ablation", "fanova", "forward-selection", "incneighbor">>

\* (variant: an error ends the loop and what was collected is returned)
EvaluateReturn_Partial(kind, err, results, evaluators) ==
    [ kind |-> kind, results |-> results,
      evaluators |-> [i \in 1..Len(evaluators) |-> i] ]

\* what evaluate_scenario hands to its caller: nothing when an exception
\* left it, else the dictionary (and, for 'all', the evaluator list)
EvaluateReturn(kind, err, results, evaluators) ==
    IF err # NoError THEN NoReturn
    ELSE [ kind |-> kind, results |-> results,
           evaluators |-> IF kind = "all" THEN [i \in 1..Len(evaluators) |-> i]
                          ELSE <<>> ]

\* one pass of the loop of evaluate_scenario:
\*     self.evaluator = method; dict_[method] = self.evaluator.run();
\*     evaluators.append(self.evaluator)
\* st: what the loop has done so far.  failAt: the position of the method
\* whose (non-fANOVA) run() raises, 0 for none.
LoopBody(method, st, failAt) ==
    LET em == ensure_model(st.orch)
        pos == Len(st.evaluators) + 1
    IN  IF st.err # NoError THEN st
        ELSE CHOOSE st1 \in
            {IF set.err # NoError
             THEN [st EXCEPT !.err = set.err, !.orch = em.orch,
                             !.trace = @ \o em.trace]
             ELSE CHOOSE st2 \in
               {[ err |-> out.err,
                  orch |-> em.orch,
                  active |-> <<out.ev>>,
                  results |-> IF out.err = NoError
                              THEN Append(st.results,
                                          [method |-> method, ev |-> pos,
                                           imp |-> out.res.imp,
                                           order |-> out.res.order])
                              ELSE st.results,
                  evaluators |-> IF out.err = NoError
                                 THEN Append(st.evaluators, out.ev)
                                 ELSE st.evaluators,
                  dump |-> IF out.dumped THEN out.dump ELSE st.dump,
                  trace |-> st.trace \o em.trace
                            \o <<Event("construct", <<out.ev.name>>)>>
                            \o out.ev.init_trace
                            \o out.trace ] :
                   out \in {evaluator_run(set.made[1], failAt = pos)}} : TRUE :
                set \in {evaluator_setter(em.orch, method)}} : TRUE

\* for method in methods: ...
RECURSIVE EvaluateLoop(_, _, _)
EvaluateLoop(methods, st, failAt) ==
    IF methods = <<>> THEN st
    ELSE CHOOSE r \in {EvaluateLoop(Tail(methods), s, failAt) :
                          s \in {LoopBody(Head(methods), st, failAt)}} : TRUE

\* Importance.evaluate_scenario
evaluate_scenario(o, evaluation_method, sort_by, failAt) ==
    LET methods == IF evaluation_method = "all" THEN MethodOrder(sort_by)
                   ELSE <<evaluation_method>>
        st0 == [ err |-> NoError, orch |-> o, active |-> <<>>, results |-> <<>>,
                 evaluators |-> <<>>, dump |-> dump, trace |-> <<>> ]
    IN  EvaluateLoop(methods, st0, failAt)

----------------------------------------------------------------------------
(* The orchestrator's operations *)

Construct(runhistory, runhistory_file, traj_file, incumbent, preds, k, d, perm) ==
    /\ orch.phase = "new"
    /\ evs = <<>>
    /\ \E out \in {Importance_init(runhistory, runhistory_file, traj_file,
                                    incumbent, preds, k, d, perm)} :
           /\ orch' = out.orch
           /\ last' = [ op |-> "Importance",
                        arg |-> <<runhistory, runhistory_file, traj_file,
                                  incumbent, preds, k, d>>,
                        ev |-> 0, err |-> out.err, ret |-> NoReturn ]
           /\ trace' = out.trace
    /\ UNCHANGED <<engineVars, evs, dump>>

\* importance.evaluator = method
SetEvaluator(method) ==
    /\ orch.phase \in {"ready", "no incumbent"}
    /\ \E em \in {ensure_model(orch)} :
       \E set \in {evaluator_setter(em.orch, method)} :
           /\ evs' = IF set.err = NoError THEN set.made ELSE evs
           /\ orch' = IF set.err = NoError THEN [em.orch EXCEPT !.evaluator = 1]
                      ELSE em.orch
           /\ last' = [ op |-> "set_evaluator", arg |-> <<method>>,
                        ev |-> IF set.err = NoError THEN 1 ELSE 0,
                        err |-> set.err, ret |-> NoReturn ]
           /\ trace' = em.trace
                        \o IF set.err = NoError
                           THEN <<Event("construct", <<set.made[1].name>>)>>
                                \o set.made[1].init_trace
                           ELSE <<>>
    /\ UNCHANGED <<engineVars, dump>>

\* importance.evaluate_scenario(evaluation_method, sort_by)
Evaluate(evaluation_method, sort_by, failAt) ==
    /\ orch.phase \in {"ready", "no incumbent"}
    /\ \E st \in {evaluate_scenario(orch, evaluation_method, sort_by, failAt)} :
       LET kind == IF evaluation_method = "all" THEN "all" ELSE "single"
           \* the evaluators still referenced: the returned list, or the
           \* active one when the call failed
           alive == IF st.err = NoError THEN st.evaluators
                    ELSE IF st.active # <<>> THEN st.active ELSE evs
       IN  /\ evs' = alive
           /\ orch' = IF st.active # <<>>
                      THEN [st.orch EXCEPT !.evaluator = Len(alive)]
                      ELSE st.orch
           /\ last' = [ op |-> "evaluate_scenario",
                        arg |-> <<evaluation_method, sort_by>>,
                        ev |-> IF st.active # <<>> THEN Len(alive) ELSE 0,
                        err |-> st.err,
                        ret |-> EvaluateReturn(kind, st.err, st.results,
                                               st.evaluators) ]
           /\ dump' = st.dump
           /\ trace' = st.trace
    /\ UNCHANGED engineVars

\* the sources of the history and the incumbent vary with the default data
\* arguments; the size of the data and of the sample, and the seed and the
\* kind of model, with one source of each; so do the instance features.
\* The size of the data and of the sample vary on an engine that does not
\* crash.
ConstructStep ==
    \/ \E runhistory \in {"None", "runhistory"},
          runhistory_file \in {"None", "runhistory.json"},
          traj_file \in TrajFiles,
          incumbent \in {"None", DirectCfg},
          m \in 0..MaxTraj,
          k \in {-1, 2} :
           \E preds \in [1..m -> 1..2] :
               Construct(runhistory, runhistory_file, traj_file, incumbent,
                         preds, k, DefaultData, <<1, 2>>)
    \/ \E nRows \in 0..MaxRows, max_sample_size \in -1..MaxRows :
           \E perm \in Perms(nRows) :
               /\ zeroDivAt = 0
               /\ Construct("runhistory", "None", "None", DirectCfg, <<>>, -1,
                         [DefaultData EXCEPT !.nRows = nRows,
                                             !.max_sample_size = max_sample_size],
                         perm)
    \/ \E run_obj \in {"runtime", "quality"}, seed \in {1, 12345} :
           Construct("runhistory", "None", "None", DirectCfg, <<>>, -1,
                     [DefaultData EXCEPT !.run_obj = run_obj, !.seed = seed],
                     <<1, 2>>)
    \/ \E nConfigs \in 1..MaxConfigs, m \in 0..1 :
           Construct("runhistory", "runhistory.json", "None", "None",
                     [i \in 1..m |-> 1], -1,
                     [DefaultData EXCEPT !.features = TRUE, !.nConfigs = nConfigs],
                     <<1, 2>>)

SetEvaluatorStep == \E method \in ValidMethods \cup OtherMethods : SetEvaluator(method)

\* sort_by and the failing position matter to 'all' alone; the failing
\* position varies in the default order and in that of sort_by = 2
EvaluateStep ==
    \/ \E method \in (ValidMethods \cup OtherMethods) \ {"all"}, failAt \in 0..1 :
          Evaluate(method, 0, failAt)
    \/ \E sort_by \in 0..5 : Evaluate("all", sort_by, 0)
    \/ \E sort_by \in {0, 2}, failAt \in 1..4 : Evaluate("all", sort_by, failAt)

InitOrch ==
    /\ nParams = MaxParams
    /\ totalImp \in {[i \in 1..nParams |-> 3],
                     [i \in 1..nParams |-> <<1, 6, 3, 1, 6, 3>>[i]]}
    /\ pairsRev = FALSE
    /\ zeroDivAt \in {0, 1, nParams + 1}
    /\ InitRest

NextOrch == ConstructStep \/ SetEvaluatorStep \/ EvaluateStep \/ RunStep

SpecOrch == InitOrch /\ [][NextOrch]_vars

----------------------------------------------------------------------------
(* The evaluator used on its own, on a surrogate with or without instance  *)
(* features                                                                 *)

NewFanovaPreStep ==
    \E features \in BOOLEAN, nConfigs \in 1..MaxConfigs,
       kinds \in [1..nParams -> Kinds] :
        NewFanova(-1, DefaultNPairs, features, nConfigs, kinds)

NextPre == NewFanovaPreStep \/ RunStep

SpecPre == InitOrch /\ [][NextPre]_vars

----------------------------------------------------------------------------
(* Properties of the fANOVA evaluator *)

\* the hyperparameter-name keys of a key list, in order
Singles(keys) == SelectSeq(keys, LAMBDA k : k \in Names)
PairKeysOf(keys) == SelectSeq(keys, LAMBDA k : k \notin Names)
Indices(names) == {IdxOf(names[i]) : i \in 1..Len(names)}

\* the fANOVA results the last call returned
FanovaResults ==
    {last.ret.results[i] : i \in {j \in 1..Len(last.ret.results) :
                                     last.ret.results[j].method = "fanova"}}

\* ... those that come from the first run() of a fresh evaluator
FirstRunResults == {r \in FanovaResults : evs[r.ev].runs = 1}

\* C1: the first run() of a fresh evaluator given to_evaluate = k >= 0 reports
\* exactly min(k, n) hyperparameter names, none of them less important than
\* a hyperparameter it leaves out.
C1_TruncationLaw ==
    \A r \in FirstRunResults :
        LET k == evs[r.ev].arg_to_evaluate
            singles == Singles(Keys(r.imp))
        IN  k >= 0 =>
              /\ Len(singles) = Min(k, nParams)
              /\ \A i \in Indices(singles), j \in (1..nParams) \ Indices(singles) :
                    totalImp[i] >= totalImp[j]

C1_Witness ==
    \E r \in FirstRunResults :
        /\ evs[r.ev].arg_to_evaluate = 2
        /\ nParams = 3
        /\ Len(Singles(Keys(r.imp))) = 2

\* C2: with a negative to_evaluate the run reports every hyperparameter of
\* the configuration space as a singleton entry.
C2_NegativeMeansAll ==
    \A r \in FirstRunResults :
        evs[r.ev].arg_to_evaluate < 0 =>
            /\ Range(Singles(Keys(r.imp))) = Names
            /\ Len(Singles(Keys(r.imp))) = nParams

C2_Witness ==
    \E r \in FirstRunResults :
        /\ evs[r.ev].arg_to_evaluate = -1
        /\ orch.parameters_to_evaluate = -1
        /\ orch.phase = "ready"
        /\ nParams >= 2
        /\ Len(Singles(Keys(r.imp))) = nParams

\* C3: the reported names are in descending order of total importance, equal
\* importances in configuration-space index order; importances
\* [0.1, 0.6, 0.3] with to_evaluate = 2 report exactly [b, c].
C3_DescendingStable ==
    \A r \in FirstRunResults :
        LET singles == Singles(r.order)
        IN  /\ \A p, q \in 1..Len(singles) :
                 p < q =>
                   LET i == IdxOf(singles[p])
                       j == IdxOf(singles[q])
                   IN  \/ totalImp[i] > totalImp[j]
                       \/ totalImp[i] = totalImp[j] /\ i < j
            /\ (nParams = 3 /\ totalImp = <<1, 6, 3>>
                /\ evs[r.ev].arg_to_evaluate = 2) => singles = <<"b", "c">>

C3_Witness ==
    \E r \in FirstRunResults :
        /\ nParams = 3
        /\ totalImp = <<3, 6, 3>>
        /\ Singles(r.order) = <<"b", "a", "c">>

\* C4: in every run() the pairwise query gets exactly the first
\* min(n_pairs, number of reported singletons) reported names, all of them
\* hyperparameter names, and every pair key of the mapping joins two
\* reported names.
C4_PairsAmongReported ==
    last.op = "run" =>
        LET ev == evs[last.ev]
            singles == Singles(Keys(ev.evaluated_parameter_importance))
        IN  /\ \A p \in 1..Len(trace) :
                 trace[p].what = "get_most_important_pairwise_marginals" =>
                    /\ trace[p].arg = Take(singles, ev.n_most_imp_pairs)
                    /\ Range(trace[p].arg) \subseteq Names
            /\ Range(PairKeysOf(Keys(ev.evaluated_parameter_importance)))
                 \subseteq {PairKey(a, b) : a, b \in Range(singles)}

\* C5: a second run() on the same evaluator gives the same key order, the
\* same singletons and the same num_single as the run before it.
C5_Idempotent ==
    [][(/\ last.op = "run" /\ last.err = NoError
        /\ last'.op = "run" /\ last'.ev = last.ev)
       => /\ last'.err = NoError
          /\ last'.ret.results[1].order = last.ret.results[1].order
          /\ Singles(last'.ret.results[1].order)
               = Singles(last.ret.results[1].order)
          /\ evs'[last.ev].num_single = evs[last.ev].num_single]_vars

\* C6: a division by zero in the engine is followed at once by the dump of
\* (X, y, cs) and then by the DegenerateVarianceError, which ends the run:
\* no engine query follows.
C6_DumpThenRaise ==
    /\ \A p \in 1..Len(trace) :
         trace[p].what = "ZeroDivisionError" =>
            /\ Len(trace) = p + 2
            /\ trace[p + 1] = Event("dump", <<evs[last.ev].X, evs[last.ev].y,
                                              evs[last.ev].cs>>)
            /\ trace[p + 2] = Event("raise", <<DegenerateVarianceError>>)
            /\ dump = <<evs[last.ev].X, evs[last.ev].y, evs[last.ev].cs>>
            /\ last.err = DegenerateVarianceError
            /\ last.ret = NoReturn
    /\ \A p \in 1..Len(trace) :
         (trace[p].what = "raise" /\ trace[p].arg = <<DegenerateVarianceError>>)
            => p > 2 /\ trace[p - 2].what = "ZeroDivisionError"

C6_Witness ==
    /\ last.op = "run"
    /\ last.err = DegenerateVarianceError
    /\ zeroDivAt = nParams + 1
    /\ dump = <<<<1, 2>>, <<1, 2>>, "cs">>

----------------------------------------------------------------------------
(* Properties of the orchestrator *)

\* C7: a call that fails hands nothing to its caller: no mapping dictionary,
\* no evaluator list, no mapping of the failed run; the crash dump is the
\* only thing written.
C7_NoPartialResults ==
    /\ last.err # NoError =>
          /\ last.ret = NoReturn
          /\ \A p \in 1..Len(trace) : trace[p].what = "raise" => p = Len(trace)
    /\ dump # <<>> => Len(dump) = 3 /\ dump[3] = "cs"
    /\ last.err = DegenerateVarianceError
          => dump = <<evs[last.ev].X, evs[last.ev].y, evs[last.ev].cs>>
    /\ dump # <<>> => zeroDivAt # 0

\* an 'all' evaluation that fails after an earlier method has returned
C7_Witness ==
    /\ last.op = "evaluate_scenario"
    /\ last.arg[1] = "all"
    /\ last.err = DegenerateVarianceError
    /\ \E p \in 1..Len(trace) : trace[p].what = "return"
    /\ last.ret = NoReturn

ClassOf(method) ==
    CASE method = "ablation" -> "Ablation"
      [] method = "fanova" -> "fANOVA"
      [] method = "forward-selection" -> "ForwardSelector"
      [] method = "influence-model" -> "InfluenceModel"
      [] method = "incneighbor" -> "IncNeighbor"
      [] OTHER -> "no evaluator"

Unresolved == {"None", "unset", Placeholder}

\* C8: set_evaluator with an unknown method fails with InvalidMethodError,
\* constructs nothing and leaves the active evaluator alone; with a known
\* method whose incumbent precondition is met it constructs the evaluator of
\* that method, which replaces the active one.
C8_SetEvaluator ==
    [][last'.op = "set_evaluator" =>
        LET method == last'.arg[1]
        IN  IF method \notin ValidMethods
            THEN /\ last'.err = InvalidMethodError
                 /\ trace' = <<>>
                 /\ evs' = evs
                 /\ orch'.evaluator = orch.evaluator
            ELSE (method \in {"ablation", "incneighbor"}
                     => orch.incumbent \notin Unresolved)
                 => /\ last'.err = NoError
                    /\ SelectSeq(trace', LAMBDA ev : ev.what = "construct")
                         = <<Event("construct", <<ClassOf(method)>>)>>
                    /\ orch'.evaluator = 1
                    /\ Len(evs') = 1
                    /\ evs'[1].name = ClassOf(method)
                    /\ evs'[1].runs = 0
                    /\ evs'[1].evaluated_parameter_importance = <<>>
                    /\ evs'[1].arg_to_evaluate = orch.parameters_to_evaluate]_vars

C8_Witness ==
    /\ last.op = "set_evaluator"
    /\ last.arg = <<"incneighbor">>
    /\ last.err = NoError
    /\ evs[orch.evaluator].name = "IncNeighbor"
    /\ evs[orch.evaluator].incumbent = DirectCfg

C10_IncumbentPriority ==
    (last.op = "Importance" /\ last.err # NoRunhistoryError) =>
        LET runhistory_file == last.arg[2]
            traj_file == last.arg[3]
            incumbent == last.arg[4]
            preds == IF runhistory_file # "None" THEN last.arg[5] ELSE <<>>
        IN  IF traj_file = "traj.json"
            THEN last.err = NoError /\ orch.incumbent = TrajCfg
            ELSE IF traj_file # "None"
            THEN last.err = FileNotFoundError
            ELSE IF preds # <<>>
            THEN /\ last.err = NoError
                 /\ \E i \in 1..Len(preds) :
                       /\ orch.incumbent = ColocCfg[i]
                       /\ \A j \in 1..Len(preds) : preds[i] <= preds[j]
            ELSE IF incumbent # "None"
            THEN last.err = NoError /\ orch.incumbent = incumbent
            ELSE last.err = NoIncumbentSourceError

AllMethods == {"ablation", "fanova", "forward-selection", "incneighbor"}

\* the class names of the evaluators a call constructed, in order
Constructed ==
    LET c == SelectSeq(trace, LAMBDA ev : ev.what = "construct")
    IN  [i \in 1..Len(c) |-> c[i].arg[1]]

Data == orch.data
Prepared == [i \in 1..Data.nRows |-> i]
Downsampled == 0 < Data.max_sample_size /\ Data.max_sample_size < Data.nRows

\* C12: once setup has completed, and whatever evaluators have been
\* constructed or run since: with 0 < max_sample_size < rows of the prepared
\* data, X and y hold max_sample_size rows, the rows of the prepared data at
\* the same pairwise different indices, and the model's last training was on
\* them; else X and y are the prepared data and the model was trained once,
\* on it.
C12_Downsampling ==
    orch.phase = "ready" =>
        /\ Len(orch.X) = Len(orch.y)
        /\ orch.trained_X = orch.X
        /\ orch.trained_y = orch.y
        /\ IF Downsampled
           THEN /\ Len(orch.X) = Data.max_sample_size
                /\ \E idx \in [1..Data.max_sample_size -> 1..Data.nRows] :
                      /\ \A i, j \in DOMAIN idx : i # j => idx[i] # idx[j]
                      /\ orch.X = Rows(Prepared, idx)
                      /\ orch.y = Rows(Prepared, idx)
                /\ orch.trains = 2
           ELSE /\ orch.X = Prepared
                /\ orch.y = Prepared
                /\ orch.trains = 1

\* a fANOVA evaluator has run on an orchestrator that kept rows 3 and 1 of
\* three
C12_Witness ==
    /\ orch.phase = "ready"
    /\ Data.nRows = 3
    /\ Data.max_sample_size = 2
    /\ orch.X = <<3, 1>>
    /\ orch.y = <<3, 1>>
    /\ orch.trains = 2
    /\ orch.evaluator # 0
    /\ evs[orch.evaluator].name = "fANOVA"
    /\ evs[orch.evaluator].runs = 1

\* C13: the rows kept by the downsampling and the seeds of the models are
\* fixed by the arguments of Importance(...), its seed among them: the same
\* call made under any other state of the process-global generator selects
\* the same rows and the same seeds, and no random draw of the call is made
\* from a generator other than self.rng.
C13_SeededRandomness ==
    (last.op = "Importance" /\ last.err = NoError) =>
        /\ \A p \in 1..Len(trace) : trace[p].what # "np.random.shuffle"
        /\ \A perm \in Perms(Data.nRows) :
              \A other \in {Importance_init(last.arg[1], last.arg[2], last.arg[3],
                                            last.arg[4], last.arg[5], last.arg[6],
                                            last.arg[7], perm).orch} :
                  /\ other.X = orch.X
                  /\ other.y = orch.y
                  /\ other.seeds = orch.seeds

\* C14: in the mapping a run() returns, the hyperparameter names come
\* first, by descending importance (equal ones in index order); the pair
\* keys follow, each the text of a two-element list of names, in the order
\* in which the engine returned the pairs to this run; the returned key list
\* is the mapping's key sequence.
C14_SinglesThenPairs ==
    (last.op = "run" /\ last.err = NoError) =>
        LET r == last.ret.results[1]
            keys == Keys(r.imp)
            singles == Singles(keys)
            query == trace[Len(trace) - 1]
            pairs == get_most_important_pairwise_marginals(query.arg)
        IN  /\ query.what = "get_most_important_pairwise_marginals"
            /\ keys = singles \o PairKeysOf(keys)
            /\ \A p, q \in 1..Len(singles) :
                  p < q =>
                    LET i == IdxOf(singles[p])
                        j == IdxOf(singles[q])
                    IN  \/ r.imp[p][2] > r.imp[q][2]
                        \/ r.imp[p][2] = r.imp[q][2] /\ i < j
            /\ PairKeysOf(keys)
                 = [i \in 1..Len(pairs) |-> PairKey(pairs[i][1][1], pairs[i][1][2])]
            /\ \A k \in Range(PairKeysOf(keys)) :
                  \E a, b \in Names : k = PairKey(a, b)
            /\ r.order = keys

\* three singletons, then the three pairs in the reverse order the engine
\* gave them in
C14_Witness ==
    /\ last.op = "run"
    /\ last.err = NoError
    /\ pairsRev
    /\ totalImp = <<1, 6, 3>>
    /\ last.ret.results[1].order
         = <<"b", "c", "a", PairKey("c", "a"), PairKey("b", "a"), PairKey("b", "c")>>

\* C15: the mapping a run() has returned is an object of its own and stays
\* as returned: a later run() on the same evaluator leaves its keys, order
\* and values alone, and returns another object, not the one the run before
\* it returned.  (results[1].ev names the evaluator whose
\* evaluated_parameter_importance the returned mapping is.)
C15_FreshAndFrozen ==
    [][(last.op = "run" /\ last.err = NoError /\ last'.op = "run")
       => LET r == last.ret.results[1]
          IN  /\ evs'[r.ev].evaluated_parameter_importance = r.imp
              /\ last'.err = NoError => last'.ret.results[1].ev # r.ev]_vars

IsPredict(ev) == ev.what = "predict_marginalized_over_instances"

\* C16: whenever a call asks a model for a marginal prediction, a train() on
\* this model object has completed before, earlier in the call or in a call
\* before it; and every evaluator holds the orchestrator's model, trained
\* at least once.
C16_TrainBeforePredict ==
    [][/\ \A p \in 1..Len(trace') :
            IsPredict(trace'[p]) =>
                LET m == trace'[p].arg[1]
                IN  \/ \E q \in 1..(p - 1) : /\ trace'[q].what = "train"
                                             /\ trace'[q].arg[1] = m
                    \/ orch.model_id = m /\ orch.trains >= 1
       /\ \A e \in 1..Len(evs') :
            /\ orch'.model # "None"
            /\ evs'[e].model.id = orch'.model_id
            /\ evs'[e].model.trains >= 1]_vars

\* the orchestrator has asked its model about the trajectory beside the
\* history, and the fANOVA evaluator it constructs now asks it about the
\* configurations of the history
C16_Witness ==
    /\ orch.incumbent = ColocCfg[1]
    /\ orch.data.features
    /\ last.op = "set_evaluator"
    /\ last.arg = <<"fanova">>
    /\ \E p \in 1..Len(trace) : IsPredict(trace[p]) /\ trace[p].arg[1] = orch.model_id
    /\ orch.trains = 1

\* C17: a fANOVA evaluator built on a surrogate with instance features has
\* asked it, once, for the means of X_prime, the encoded values of every
\* configuration of the history as they are; its y is the answer, and its X
\* is X_non_hyper, the same values with those of the non-categorical
\* hyperparameters transformed.  Built on a surrogate without instance
\* features it has asked nothing, and its X and y are the surrogate's.
C17_TwoEncodings ==
    \A e \in 1..Len(evs) :
        evs[e].name = "fANOVA" =>
            LET ev == evs[e]
                X_prime == [c \in 1..ev.nConfigs |->
                              [idx \in 1..nParams |-> Raw(c, idx)]]
                X_non_hyper == [c \in 1..ev.nConfigs |->
                                  [idx \in 1..nParams |->
                                      IF ev.kinds[idx] = "categorical"
                                      THEN Raw(c, idx)
                                      ELSE Transform(Raw(c, idx))]]
            IN  IF ev.model.instance_features
                THEN /\ ev.X = X_non_hyper
                     /\ ev.y = PredictedMeans(X_prime)
                     /\ ev.init_trace
                          = <<Event("predict_marginalized_over_instances",
                                    <<ev.model.id, X_prime>>)>>
                ELSE /\ ev.X = ev.model.X
                     /\ ev.y = ev.model.y
                     /\ ev.init_trace = <<>>

====
